---- MODULE Spec2Model ----
(***************************************************************************)
(* The conversational orchestration pipeline of the medical dashboard      *)
(* backend: the chat and clear endpoints of backend/main.py over the       *)
(* in-memory conversation_store, and the LangGraph workflow of             *)
(* backend/langgraph/agent.py (analyze, generate_sql, validate,            *)
(* execute_sql, bulk_insert, emit_event, respond) over the SQLite store.   *)
(*                                                                         *)
(* Texts (statements, completions, messages) are TLA+ strings and the      *)
(* keyword scans of the code are computed on their characters.             *)
(***************************************************************************)
EXTENDS Integers, Sequences, FiniteSets, TLC

\* ---------------------------------------------------------------- bounds
\* Requests ever started in one behaviour.
MaxRequests == 2
\* Requests that may be between ChatBegin and ChatEnd at the same time.
MaxInFlight == 2
\* Highest row id a table hands out before the engine reports a full disk.
MaxRowId == 2
\* Exchanges a session may already hold when a behaviour of SessionSpec starts.
MaxPrior == 10

\* main.py:65-66, the number of turns kept per session.
HistoryLimit == 20

\* Python's None, kept apart from every text of the model.
None == "<None>"

\* ---------------------------------------------------------------- texts
Lowers == "abcdefghijklmnopqrstuvwxyz"
Uppers == "ABCDEFGHIJKLMNOPQRSTUVWXYZ"
Letters == 1..Len(Lowers)

CharAt(t, i) == SubSeq(t, i, i)

ToUpperMap == [c \in {CharAt(Lowers, i) : i \in Letters} |-> CharAt(Uppers, CHOOSE i \in Letters : CharAt(Lowers, i) = c)]
ToLowerMap == [c \in {CharAt(Uppers, i) : i \in Letters} |-> CharAt(Lowers, CHOOSE i \in Letters : CharAt(Uppers, i) = c)]

RECURSIVE MapChars(_, _)
MapChars(m, t) ==
  IF t = "" THEN ""
  ELSE LET c == CharAt(t, 1)
       IN (IF c \in DOMAIN m THEN m[c] ELSE c) \o MapChars(m, SubSeq(t, 2, Len(t)))

\* str.upper() and str.lower()
Upper(t) == MapChars(ToUpperMap, t)
Lower(t) == MapChars(ToLowerMap, t)

\* Python's `sub in t` on texts
Contains(t, sub) == \E i \in 1..(Len(t) - Len(sub) + 1) : SubSeq(t, i, i + Len(sub) - 1) = sub

\* str.startswith and str.endswith
StartsWith(t, p) == Len(p) <= Len(t) /\ SubSeq(t, 1, Len(p)) = p
EndsWith(t, p) == Len(p) <= Len(t) /\ SubSeq(t, Len(t) - Len(p) + 1, Len(t)) = p

IsSpace(c) == c \in {" ", "\n", "\t", "\r"}

RECURSIVE LStrip(_)
LStrip(t) == IF t # "" /\ IsSpace(CharAt(t, 1)) THEN LStrip(SubSeq(t, 2, Len(t))) ELSE t
RECURSIVE RStrip(_)
RStrip(t) == IF t # "" /\ IsSpace(CharAt(t, Len(t))) THEN RStrip(SubSeq(t, 1, Len(t) - 1)) ELSE t

\* str.strip()
Strip(t) == RStrip(LStrip(t))

\* Position of the first occurrence of sub in t, 0 when there is none (str.find + 1).
Find(t, sub) ==
  IF Contains(t, sub)
  THEN CHOOSE i \in 1..(Len(t) - Len(sub) + 1) :
         /\ SubSeq(t, i, i + Len(sub) - 1) = sub
         /\ \A j \in 1..(i - 1) : SubSeq(t, j, j + Len(sub) - 1) # sub
  ELSE 0

\* str.replace(old, new): every occurrence, left to right.
RECURSIVE Replace(_, _, _)
Replace(t, old, new) ==
  LET i == Find(t, old)
  IN IF i = 0 THEN t
     ELSE SubSeq(t, 1, i - 1) \o new \o Replace(SubSeq(t, i + Len(old), Len(t)), old, new)

\* str.split(sep): the pieces between the occurrences of sep, in order.
RECURSIVE Split(_, _)
Split(t, sep) ==
  LET i == Find(t, sep)
  IN IF i = 0 THEN <<t>>
     ELSE <<SubSeq(t, 1, i - 1)>> \o Split(SubSeq(t, i + Len(sep), Len(t)), sep)

\* t[:n]
Prefix(t, n) == IF Len(t) > n THEN SubSeq(t, 1, n) ELSE t

\* Python's truth value of an Optional[str]
Truthy(t) == t # None /\ t # ""

\* The three-backtick code fence of Markdown. A TLA+ string cannot hold a
\* backtick, so the tilde stands for it in every text of the model.
Fence == "~~~"

\* ---------------------------------------------------------------- the store
\* The SQLite database behind get_db_connection(): four entity tables, each
\* row an id and one text field (patients.name, visits.diagnosis,
\* prescriptions.medication, billing.status), the AUTOINCREMENT counters, and
\* the audit table.
Tables == {"patients", "visits", "prescriptions", "billing"}

\* The statements the completion service is taken to produce, as the engine
\* reads them.  op: what the engine does; table; wid: the id of a WHERE id =
\* clause (0: none); wval: the value of a WHERE <field> = clause ("": none);
\* val: the value written; xid: an id given explicitly on INSERT (0: none).
SelPatients == "SELECT * FROM patients"
SelPending == "SELECT * FROM billing WHERE status = 'Pending'"
SelUpdated == "SELECT * FROM patients WHERE name = 'Updated'"
SelBadColumn == "SELECT nam FROM patients"
SelNames == "SELECT name FROM patients"
SelMeds == "SELECT * FROM prescriptions"
SelTreated == "SELECT p.name, p.age, v.diagnosis FROM visits v JOIN patients p ON p.id = v.patient_id"
SelAudit == "SELECT * FROM audit_log"
SelKept == "SELECT * FROM patients WHERE name != 'Deleted'"
InsPatient == "INSERT INTO patients (name) VALUES ('John')"
InsPatientDup == "INSERT INTO patients (id, name) VALUES (1, 'Ann')"
InsBilling == "INSERT INTO billing (patient_id, status) VALUES (1, 'Pending')"
InsVisit == "INSERT INTO visits (patient_id, diagnosis) VALUES (1, 'Flu')"
InsNoTable == "INSERT INTO nurses (name) VALUES ('Joy')"
InsDropName == "INSERT INTO patients (name) VALUES ('Drop')"
UpdBill1 == "UPDATE billing SET status = 'Paid' WHERE id = 1"
UpdBill9 == "UPDATE billing SET status = 'Paid' WHERE id = 9"
UpdBillAll == "update billing set status = 'Paid'"
UpdBillNowhere == "UPDATE billing SET status = 'Nowhere'"
DelVisitsAll == "Delete from visits"
DelPatient1 == "DELETE FROM patients WHERE id = 1"
DropPatients == "drop table patients"
TruncBilling == "Truncate Table billing"
ReplacePatient == "REPLACE INTO patients (id, name) VALUES (1, 'Bob')"
TwoStatements == "INSERT INTO visits (diagnosis) VALUES ('Flu'); Delete from visits"
DelAudit == "DELETE FROM audit_log WHERE user = 'chatbot'"
UpdAudit == "UPDATE audit_log SET new_value = '' WHERE user = 'chatbot'"

Stmt(op, table, wid, wval, val, xid) == [op |-> op, table |-> table, wid |-> wid, wval |-> wval, val |-> val, xid |-> xid]

Grammar ==
  [t \in {SelPatients, SelPending, SelUpdated, SelBadColumn, SelNames, SelMeds, SelTreated, SelAudit, SelKept, InsPatient, InsPatientDup,
          InsBilling, InsVisit, InsNoTable, InsDropName, UpdBill1, UpdBill9, UpdBillAll, UpdBillNowhere,
          DelVisitsAll, DelPatient1, DropPatients, ReplacePatient, TwoStatements, DelAudit, UpdAudit} |->
     CASE t = SelPatients -> Stmt("select", "patients", 0, "", "", 0)
       [] t = SelPending -> Stmt("select", "billing", 0, "Pending", "", 0)
       [] t = SelUpdated -> Stmt("select", "patients", 0, "Updated", "", 0)
       [] t = SelBadColumn -> Stmt("badcolumn", "patients", 0, "", "nam", 0)
       [] t = SelNames -> Stmt("select", "patients", 0, "", "name", 0)
       [] t = SelMeds -> Stmt("select", "prescriptions", 0, "", "", 0)
       [] t = SelTreated -> Stmt("join", "visits", 0, "", "", 0)
       [] t = SelAudit -> Stmt("select", "audit_log", 0, "", "", 0)
       [] t = SelKept -> Stmt("select", "patients", 0, "", "", 0)
       [] t = InsPatient -> Stmt("insert", "patients", 0, "", "John", 0)
       [] t = InsPatientDup -> Stmt("insert", "patients", 0, "", "Ann", 1)
       [] t = InsBilling -> Stmt("insert", "billing", 0, "", "Pending", 0)
       [] t = InsVisit -> Stmt("insert", "visits", 0, "", "Flu", 0)
       [] t = InsNoTable -> Stmt("insert", "nurses", 0, "", "Joy", 0)
       [] t = InsDropName -> Stmt("insert", "patients", 0, "", "Drop", 0)
       [] t = UpdBill1 -> Stmt("update", "billing", 1, "", "Paid", 0)
       [] t = UpdBill9 -> Stmt("update", "billing", 9, "", "Paid", 0)
       [] t = UpdBillAll -> Stmt("update", "billing", 0, "", "Paid", 0)
       [] t = UpdBillNowhere -> Stmt("update", "billing", 0, "", "Nowhere", 0)
       [] t = DelVisitsAll -> Stmt("delete", "visits", 0, "", "", 0)
       [] t = DelPatient1 -> Stmt("delete", "patients", 1, "", "", 0)
       [] t = DropPatients -> Stmt("drop", "patients", 0, "", "", 0)
       [] t = ReplacePatient -> Stmt("replace", "patients", 0, "", "Bob", 1)
       [] t = TwoStatements -> Stmt("many", "visits", 0, "", "", 0)
       [] t = DelAudit -> Stmt("delete", "audit_log", 0, "chatbot", "", 0)
       [] t = UpdAudit -> Stmt("update", "audit_log", 0, "chatbot", "", 0)]

\* sqlite3's reading of a statement text; a text outside the grammar is a
\* syntax error.
Parse(text) == IF text \in DOMAIN Grammar THEN Grammar[text] ELSE Stmt("syntax", "", 0, "", "", 0)

\* The ids of the rows that statement s selects.
Matching(d, s) ==
  IF s.table \notin Tables THEN {}
  ELSE {i \in DOMAIN d.rows[s.table] :
          /\ s.wid = 0 \/ i = s.wid
          /\ s.wval = "" \/ d.rows[s.table][i] = s.wval}

\* A finite set of ids in increasing order.
RECURSIVE Ascending(_)
Ascending(ids) ==
  IF ids = {} THEN <<>>
  ELSE LET m == CHOOSE i \in ids : \A j \in ids : i <= j
       IN <<m>> \o Ascending(ids \ {m})

Raise(d, msg) == [raised |-> TRUE, msg |-> msg, db |-> d, rowcount |-> -1, lastrowid |-> 0, fetched |-> <<>>, changed |-> 0]
Done(d, rowcount, lastrowid, fetched, changed) == [raised |-> FALSE, msg |-> "", db |-> d, rowcount |-> rowcount, lastrowid |-> lastrowid, fetched |-> fetched, changed |-> changed]

\* The table of d after an INSERT or REPLACE of row id with value val.
Put(d, t, id, val) ==
  [d EXCEPT !.rows[t] = [i \in DOMAIN d.rows[t] \cup {id} |-> IF i = id THEN val ELSE d.rows[t][i]],
            !.seq[t] = IF id > d.seq[t] THEN id ELSE d.seq[t]]

\* The id an INSERT gives its row: the explicit one, else the next of the
\* table's AUTOINCREMENT counter.
NewId(d, s) == IF s.xid # 0 THEN s.xid ELSE IF s.table \in Tables THEN d.seq[s.table] + 1 ELSE 0

Fetched(d, t, ids) == [k \in 1..Len(ids) |-> [table |-> t, id |-> ids[k], value |-> d.rows[t][ids[k]]]]

\* SELECT <column> FROM ...: the rows with that column alone.
Projected(rows, col) == IF col = "" THEN rows ELSE [k \in DOMAIN rows |-> [rows[k] EXCEPT !.table = @ \o "." \o col]]

\* The rows of visits joined with their patient (every visit of the model
\* is of patient 1): the patient's name and age and the diagnosis.
Joined(d, ids) ==
  IF 1 \in DOMAIN d.rows["patients"]
  THEN [k \in 1..Len(ids) |-> [table |-> "visits+patients", id |-> ids[k], value |-> d.rows["visits"][ids[k]], name |-> d.rows["patients"][1]]]
  ELSE <<>>

\* The rows of the audit table as a SELECT returns them.
AuditFetched(d) == [k \in DOMAIN d.audit |-> [table |-> "audit_log", id |-> k, value |-> d.audit[k].new_value]]

\* The rows of the audit table that statement s selects (WHERE user = ...).
AuditHits(d, s) == {k \in DOMAIN d.audit : d.audit[k].user = s.wval}

\* The engine on the parsed statement s of `text`; hit: the ids it selects,
\* newid: the id an INSERT gives.
Engine(d, text, s, hit, newid) ==
  CASE s.op = "syntax" -> Raise(d, "near \"" \o text \o "\": syntax error")
    [] s.op = "many" -> Raise(d, "You can only execute one statement at a time.")
    [] s.op \notin {"syntax", "many"} /\ s.table # "audit_log" /\ (s.table \notin Tables \/ s.table \in d.dropped) -> Raise(d, "no such table: " \o s.table)
    [] s.op = "delete" /\ s.table = "audit_log" ->
         Done([d EXCEPT !.audit = SelectSeq(@, LAMBDA a : a.user # s.wval)], Cardinality(AuditHits(d, s)), 0, <<>>, Cardinality(AuditHits(d, s)))
    [] s.op = "update" /\ s.table = "audit_log" ->
         Done([d EXCEPT !.audit = [k \in DOMAIN @ |-> IF k \in AuditHits(d, s) THEN [@[k] EXCEPT !.new_value = s.val] ELSE @[k]]],
              Cardinality(AuditHits(d, s)), 0, <<>>, Cardinality(AuditHits(d, s)))
    [] s.op = "badcolumn" /\ s.table \in Tables \ d.dropped -> Raise(d, "no such column: " \o s.val)
    [] s.op = "select" /\ s.table = "audit_log" -> Done(d, -1, 0, AuditFetched(d), 0)
    [] s.op = "select" /\ s.table \in Tables \ d.dropped -> Done(d, -1, 0, Projected(Fetched(d, s.table, Ascending(hit)), s.val), 0)
    [] s.op = "join" /\ s.table \in Tables \ d.dropped -> Done(d, -1, 0, Joined(d, Ascending(hit)), 0)
    [] s.op = "insert" /\ s.table \in Tables \ d.dropped ->
         IF newid \in DOMAIN d.rows[s.table] THEN Raise(d, "UNIQUE constraint failed: " \o s.table \o ".id")
         ELSE IF newid > MaxRowId THEN Raise(d, "database or disk is full")
         ELSE Done(Put(d, s.table, newid, s.val), 1, newid, <<>>, 1)
    [] s.op = "replace" /\ s.table \in Tables \ d.dropped -> Done(Put(d, s.table, newid, s.val), 1, newid, <<>>, 1)
    [] s.op = "update" /\ s.table \in Tables \ d.dropped ->
         Done([d EXCEPT !.rows[s.table] = [i \in DOMAIN d.rows[s.table] |-> IF i \in hit THEN s.val ELSE d.rows[s.table][i]]],
              Cardinality(hit), 0, <<>>, Cardinality(hit))
    [] s.op = "delete" /\ s.table \in Tables \ d.dropped ->
         Done([d EXCEPT !.rows[s.table] = [i \in DOMAIN d.rows[s.table] \ hit |-> d.rows[s.table][i]]],
              Cardinality(hit), 0, <<>>, Cardinality(hit))
    [] s.op = "drop" /\ s.table \in Tables \ d.dropped ->
         Done([d EXCEPT !.rows[s.table] = [i \in {} |-> ""], !.dropped = d.dropped \cup {s.table}], -1, 0, <<>>, 1)

\* cursor.execute(text) on database d: the exception it raises or the
\* database it leaves in the open transaction, with cursor.rowcount (-1 for a
\* statement that is no INSERT, UPDATE, DELETE or REPLACE), cursor.lastrowid,
\* the rows fetchall() returns, and the number of rows it changed.
Statement(d, text, s) == Engine(d, text, s, Matching(d, s), NewId(d, s))

CursorExecute(d, text) == Statement(d, text, Parse(text))

\* The database file as a connection sees it: the entity tables and the
\* audit_log table (agent.py:444) side by side.
Connected(d, log) == [rows |-> d.rows, seq |-> d.seq, dropped |-> d.dropped, audit |-> log]
Entities(c) == [rows |-> c.rows, seq |-> c.seq, dropped |-> c.dropped]

\* The database a fresh deployment is seeded with.
SeedDb ==
  [rows |-> [t \in Tables |-> CASE t = "patients" -> (1 :> "Emma")
                                [] t = "billing" -> (1 :> "Pending")
                                [] t = "visits" -> (1 :> "Flu")
                                [] t = "prescriptions" -> (1 :> "Tamiflu")],
   seq |-> [t \in Tables |-> 1],
   dropped |-> {}]

\* ---------------------------------------------------------------- state
Sessions == {"default", "s2"}
Requests == 1..MaxRequests
\* Addresses of the Python list objects that hold histories: every list in
\* use is referred to by a session or by a request in flight.
Addrs == 1..(Cardinality(Sessions) + MaxInFlight + 1)

\* What users type.
Messages == {"show pending bills", "drop the patients table"}

VARIABLES
  conversation_store,  \* main.py:14, session id -> address of its list; 0: no such key
  heap,                \* address -> the turns of that list object
  req,                 \* request -> its position in chat_endpoint and its AgentState
  db,                  \* the committed database
  audit_log,           \* the rows of the audit_log table, oldest first
  executions,          \* every cursor.execute() made, in order
  broadcasts,          \* every manager.broadcast() made, in order
  wiped                \* session id -> the requests whose turns its last clear removed,
                       \* until the next chat on it (history variable)

vars == <<conversation_store, heap, req, db, audit_log, executions, broadcasts, wiped>>

\* AgentState as chat_endpoint builds it (main.py:53-56); keys the input
\* leaves out read as None through state.get().
InitialState(message, history) ==
  [message |-> message, chat_history |-> history, intent |-> None, sql_query |-> None,
   execution_result |-> None, error |-> None, table_changed |-> None,
   needs_clarification |-> FALSE, final |-> None]

IdleRequest ==
  [pc |-> "idle", session_id |-> None, chat_history |-> 0, state |-> InitialState(None, <<>>),
   stages |-> <<>>, accepted |-> None, exception |-> None, output |-> None, handles |-> 0, response |-> None]

InFlight == {r \in Requests : req[r].pc \notin {"idle", "done", "raised"}}
Started == {r \in Requests : req[r].pc # "idle"}

\* The list objects something still refers to; the others are garbage.
Live(store, rq) ==
  {store[s] : s \in Sessions} \cup {rq[r].chat_history : r \in {q \in Requests : rq[q].pc \notin {"idle", "done", "raised"}}}

\* Garbage collection: a list nothing refers to is gone.
Collect(h, store, rq) == [a \in Addrs |-> IF a \in Live(store, rq) THEN h[a] ELSE <<>>]

\* The address a newly built list gets.
NewAddr == CHOOSE a \in Addrs : a \notin Live(conversation_store, req) /\ \A b \in Addrs : b \notin Live(conversation_store, req) => a <= b

UserTurn(r, text) == [role |-> "user", content |-> text, req |-> r]
AssistantTurn(r, text) == [role |-> "assistant", content |-> text, req |-> r]

\* chat_history[-20:]
LastTurns(h, n) == IF Len(h) > n THEN SubSeq(h, Len(h) - n + 1, Len(h)) ELSE h

\* ---------------------------------------------------------------- endpoints
\* chat_endpoint up to the await of app_graph.ainvoke (main.py:41-57).
\* sid is request.session_id: None and "" both read as "default".  At most
\* `limit` requests are in flight at a time.
ChatBegin(r, sid, m, limit) ==
  LET s == IF Truthy(sid) THEN sid ELSE "default"
      fresh == conversation_store[s] = 0
      a == IF fresh THEN NewAddr ELSE conversation_store[s]
      h == IF fresh THEN <<>> ELSE heap[a]
  IN /\ req[r].pc = "idle"
     /\ \A q \in Requests : q < r => req[q].pc # "idle"
     /\ Cardinality(InFlight) < limit
     /\ conversation_store' = [conversation_store EXCEPT ![s] = a]
     /\ heap' = [heap EXCEPT ![a] = h]
     /\ req' = [req EXCEPT ![r] = [IdleRequest EXCEPT !.pc = "analyze", !.session_id = s,
                                                      !.chat_history = a, !.state = InitialState(m, h)]]
     /\ wiped' = [wiped EXCEPT ![s] = {}]
     /\ UNCHANGED <<db, audit_log, executions, broadcasts>>

\* A variant of UpdateHistory without lines 65-66: nothing is ever evicted.
UpdateHistoryKeepAll(store, h, s, a, r, message, final) ==
  [store |-> store, heap |-> [h EXCEPT ![a] = h[a] \o <<UserTurn(r, message), AssistantTurn(r, final)>>]]

\* A variant of UpdateHistory whose slice keeps one turn less than the limit.
UpdateHistoryOddSlice(store, h, s, a, r, message, final) ==
  LET appended == h[a] \o <<UserTurn(r, message), AssistantTurn(r, final)>>
      evict == Len(appended) > HistoryLimit
      b == CHOOSE x \in Addrs : x \notin (Live(store, req) \ {a}) /\ x # a
  IN IF evict
     THEN [store |-> [store EXCEPT ![s] = b], heap |-> [h EXCEPT ![a] = appended, ![b] = LastTurns(appended, HistoryLimit - 1)]]
     ELSE [store |-> store, heap |-> [h EXCEPT ![a] = appended]]

\* Lines 60-66 of main.py on the list the request refers to and on the store.
UpdateHistory(store, h, s, a, r, message, final) ==
  LET appended == h[a] \o <<UserTurn(r, message), AssistantTurn(r, final)>>
      evict == Len(appended) > HistoryLimit
      b == CHOOSE x \in Addrs : x \notin (Live(store, req) \ {a}) /\ x # a
  IN IF evict
     THEN [store |-> [store EXCEPT ![s] = b], heap |-> [h EXCEPT ![a] = appended, ![b] = LastTurns(appended, HistoryLimit)]]
     ELSE [store |-> store, heap |-> [h EXCEPT ![a] = appended]]

\* chat_endpoint after the await (main.py:58-68): the two turns are appended
\* to the list fetched before the await and the reply is returned.
Finished(r) ==
  [req EXCEPT ![r] = [IdleRequest EXCEPT !.pc = "done", !.session_id = req[r].session_id, !.response = req[r].state.final,
                                         !.stages = req[r].stages, !.accepted = req[r].accepted,
                                         !.handles = req[r].handles]]

ChatEndStep(r, u) ==
  /\ req' = Finished(r)
  /\ conversation_store' = u.store
  /\ heap' = Collect(u.heap, u.store, req')

ChatEnd(r) ==
  /\ req[r].pc = "END"
  /\ ChatEndStep(r, UpdateHistory(conversation_store, heap, req[r].session_id, req[r].chat_history, r, req[r].state.message, req[r].state.final))
  /\ UNCHANGED <<db, audit_log, executions, broadcasts, wiped>>

\* A variant of Cleared without the membership test of line 74.
ClearedAlways(store, s, a) == [store EXCEPT ![s] = a]

\* The store after clear_chat(s) (main.py:74-75).
Cleared(store, s, a) == IF store[s] # 0 THEN [store EXCEPT ![s] = a] ELSE store

\* The requests whose turns are stored for session s.
Stored(s) == IF conversation_store[s] = 0 THEN {} ELSE {heap[conversation_store[s]][i].req : i \in DOMAIN heap[conversation_store[s]]}

\* clear_chat (main.py:72-76): an existing session is bound to a new empty list.
ClearChat(s) ==
  /\ conversation_store' = Cleared(conversation_store, s, NewAddr)
  /\ heap' = Collect([heap EXCEPT ![NewAddr] = <<>>], conversation_store', req)
  /\ wiped' = [wiped EXCEPT ![s] = @ \cup Stored(s)]
  /\ UNCHANGED <<req, db, audit_log, executions, broadcasts>>

\* ---------------------------------------------------------------- completion service
\* llm.invoke() either returns response.content or lets the exception of
\* client.chat.completions.create() through (agent.py:81-85): it has no handler.
InvokeFailed == "<APIConnectionError>"

\* What the service may answer to the classification prompt.
AnalysisCompletions ==
  {"{\"intent\": \"CHAT\"}",
   "{\"intent\": \"QUERY\"}",
   Fence \o "json\n{\"intent\": \"UPDATE\"}\n" \o Fence,
   "{\"intent\": \"BULK_INSERT\"}",
   "{\"intent\": \"DELETE\"}",
   "{}",
   "[]",
   "The intent is QUERY."}

\* json.loads on a classification answer: the documents above; any other
\* text raises JSONDecodeError.
JsonLoadsAnalysis(text) ==
  CASE text = "{\"intent\": \"CHAT\"}" -> [ok |-> TRUE, object |-> TRUE, intent |-> "CHAT"]
    [] text = "{\"intent\": \"QUERY\"}" -> [ok |-> TRUE, object |-> TRUE, intent |-> "QUERY"]
    [] text = "{\"intent\": \"UPDATE\"}" -> [ok |-> TRUE, object |-> TRUE, intent |-> "UPDATE"]
    [] text = "{\"intent\": \"BULK_INSERT\"}" -> [ok |-> TRUE, object |-> TRUE, intent |-> "BULK_INSERT"]
    [] text = "{\"intent\": \"DELETE\"}" -> [ok |-> TRUE, object |-> TRUE, intent |-> "DELETE"]
    [] text = "{}" -> [ok |-> TRUE, object |-> TRUE, intent |-> None]
    [] text = "[]" -> [ok |-> TRUE, object |-> FALSE, intent |-> None]
    [] OTHER -> [ok |-> FALSE, object |-> FALSE, intent |-> None]

\* What a node hands back: the merged state, or the exception it let through.
Returned(st) == [raised |-> FALSE, exception |-> None, state |-> st]
Raised(st, exception) == [raised |-> TRUE, exception |-> exception, state |-> st]

\* The keyword rule of agent.py:259.
FallbackIntent(message) ==
  IF \E w \in {"show", "list", "get", "find", "search"} : Contains(Lower(message), w) THEN "QUERY" ELSE "UPDATE"

\* agent.py:238-244, the text handed to json.loads.
Unjson(inner) == IF StartsWith(inner, "json") THEN SubSeq(inner, 5, Len(inner)) ELSE inner
Unfence(stripped) == IF StartsWith(stripped, Fence) THEN Unjson(Split(stripped, Fence)[2]) ELSE stripped
AnalysisText(content) == Strip(Unfence(Strip(content)))

\* analyze_request (agent.py:186-260) on the answer `content` of the service.
Classified(st, doc) ==
  IF ~doc.ok THEN Returned([st EXCEPT !.intent = FallbackIntent(st.message), !.needs_clarification = FALSE])
  ELSE IF ~doc.object THEN Raised(st, "AttributeError")
  ELSE Returned([st EXCEPT !.intent = IF doc.intent = None THEN "QUERY" ELSE doc.intent, !.needs_clarification = FALSE])

analyze_request(st, content) ==
  IF content = InvokeFailed THEN Raised(st, InvokeFailed) ELSE Classified(st, JsonLoadsAnalysis(AnalysisText(content)))

\* A variant of route_after_analysis without the CHAT test of line 715.
route_after_analysisNoChat(st) ==
  IF st.needs_clarification THEN "respond"
  ELSE IF st.intent = "BULK_INSERT" THEN "bulk_insert"
  ELSE "generate_sql"

\* route_after_analysis (agent.py:711-719)
route_after_analysis(st) ==
  IF st.needs_clarification THEN "respond"
  ELSE IF st.intent = "CHAT" THEN "respond"
  ELSE IF st.intent = "BULK_INSERT" THEN "bulk_insert"
  ELSE "generate_sql"

\* What the service may answer to the generation prompt.
SqlCompletions ==
  {SelPatients,
   Fence \o "sql\n" \o SelPending \o ";\n" \o Fence,
   "Here is the query:\n" \o SelUpdated,
   SelBadColumn,
   SelNames,
   SelMeds,
   SelTreated,
   SelAudit,
   SelKept,
   InsPatient,
   InsPatientDup,
   UpdBill1 \o "; drop table billing",
   UpdBill9,
   UpdBillAll,
   UpdBillNowhere,
   DelAudit,
   UpdAudit,
   DelVisitsAll,
   DelPatient1,
   DropPatients,
   TruncBilling,
   ReplacePatient,
   "I cannot\nhelp with that",
   ""}

SqlKeywords == {"SELECT", "INSERT", "UPDATE", "DELETE"}

\* agent.py:356-362: of a multi-line text, the first line that starts with a
\* statement keyword; the text itself when no line does.
StartsSql(line) == \E k \in SqlKeywords : StartsWith(Upper(line), k)
RECURSIVE FirstSqlLine(_, _)
FirstSqlLine(lines, whole) ==
  IF lines = <<>> THEN whole
  ELSE IF StartsSql(Strip(Head(lines))) THEN Strip(Head(lines))
  ELSE FirstSqlLine(Tail(lines), whole)

\* agent.py:347-366, the clean-up of the generated text.
Unfenced(content) == Strip(Replace(Replace(Strip(content), Fence \o "sql", ""), Fence, ""))
OneLine(text) == IF Contains(text, "\n") THEN FirstSqlLine(Split(text, "\n"), text) ELSE text
OneStatement(text) == IF Contains(text, ";") THEN Strip(Split(text, ";")[1]) ELSE text
CleanSql(content) == OneStatement(OneLine(Unfenced(content)))

\* generate_smart_sql (agent.py:263-369)
generate_smart_sql(st, content) ==
  IF st.intent = "CHAT" THEN Returned(st)
  ELSE IF content = InvokeFailed THEN Raised(st, InvokeFailed)
  ELSE Returned([st EXCEPT !.sql_query = CleanSql(content)])

\* A variant of ValidationError that scans the text as written, without
\* sql_query.upper().
ValidationErrorCaseSensitive(sql_query) ==
  IF ~Truthy(sql_query) THEN None
  ELSE IF Contains(sql_query, "DROP") THEN "DROP operations are not allowed for safety reasons."
  ELSE IF Contains(sql_query, "TRUNCATE") THEN "TRUNCATE operations are not allowed for safety reasons."
  ELSE IF Contains(sql_query, "DELETE") /\ ~Contains(sql_query, "WHERE")
    THEN "DELETE without WHERE clause is not allowed. Please specify which records to delete."
  ELSE IF Contains(sql_query, "UPDATE") /\ ~Contains(sql_query, "WHERE")
    THEN "UPDATE without WHERE clause would affect all records. Please specify which records to update."
  ELSE None

\* validate_operation (agent.py:372-395): the error it sets, None when it
\* sets none.
ValidationError(sql_query) ==
  LET sql_upper == Upper(sql_query)
  IN IF ~Truthy(sql_query) THEN None
     ELSE IF Contains(sql_upper, "DROP") THEN "DROP operations are not allowed for safety reasons."
     ELSE IF Contains(sql_upper, "TRUNCATE") THEN "TRUNCATE operations are not allowed for safety reasons."
     ELSE IF Contains(sql_upper, "DELETE") /\ ~Contains(sql_upper, "WHERE")
       THEN "DELETE without WHERE clause is not allowed. Please specify which records to delete."
     ELSE IF Contains(sql_upper, "UPDATE") /\ ~Contains(sql_upper, "WHERE")
       THEN "UPDATE without WHERE clause would affect all records. Please specify which records to update."
     ELSE None

validate_operation(st) ==
  IF ValidationError(st.sql_query) = None THEN st ELSE [st EXCEPT !.error = ValidationError(st.sql_query)]

\* route_after_validation (agent.py:725-729)
route_after_validation(st) == IF Truthy(st.error) THEN "respond" ELSE "execute_sql"

\* ---------------------------------------------------------------- json
\* json.dumps of a text: quotes and line breaks escaped.
JsonString(t) == "\"" \o Replace(Replace(t, "\"", "\\\""), "\n", "\\n") \o "\""

\* dict(row) of a fetched row as json.dumps writes it, with the columns of its table.
RowJson(row) ==
  LET id == "{\"id\": " \o ToString(row.id)
  IN CASE row.table = "patients" -> id \o ", \"name\": " \o JsonString(row.value) \o ", \"age\": 30}"
       [] row.table = "visits" -> id \o ", \"patient_id\": 1, \"diagnosis\": " \o JsonString(row.value) \o "}"
       [] row.table = "prescriptions" -> id \o ", \"visit_id\": 1, \"medication\": " \o JsonString(row.value) \o "}"
       [] row.table = "billing" -> id \o ", \"patient_id\": 1, \"amount\": 50.0, \"status\": " \o JsonString(row.value) \o "}"
       [] row.table = "patients.name" -> "{\"name\": " \o JsonString(row.value) \o "}"
       [] row.table = "visits+patients" -> "{\"name\": " \o JsonString(row.name) \o ", \"age\": 30, \"diagnosis\": " \o JsonString(row.value) \o "}"
       [] row.table = "audit_log" -> id \o ", \"operation\": \"SQL Execution\", \"new_value\": " \o JsonString(row.value) \o ", \"user\": \"chatbot\"}"

\* sep.join(texts)
RECURSIVE Join(_, _)
Join(texts, sep) ==
  IF texts = <<>> THEN ""
  ELSE IF Len(texts) = 1 THEN texts[1]
  ELSE texts[1] \o sep \o Join(Tail(texts), sep)

\* json.dumps([dict(row) for row in rows]) (agent.py:451)
JsonDumpsRows(rows) == "[" \o Join([k \in 1..Len(rows) |-> RowJson(rows[k])], ", ") \o "]"

\* json.loads on an execution result (agent.py:542): a list of objects is
\* read back as the texts of its objects; the result messages of the
\* workflow are no JSON and raise JSONDecodeError.
JsonLoadsResult(text) ==
  IF StartsWith(text, "[{") /\ EndsWith(text, "}]")
  THEN [ok |-> TRUE, list |-> Split(SubSeq(text, 3, Len(text) - 2), "}, {")]
  ELSE [ok |-> FALSE, list |-> <<>>]

\* `key in data[0]`
HasKey(object, key) == Contains(object, "\"" \o key \o "\": ")

\* ---------------------------------------------------------------- executor
\* agent.py:466-474, the message shown for an engine failure.
ErrorMessage(error_msg) ==
  IF Contains(error_msg, "UNIQUE constraint")
    THEN "A record with this information already exists. Please use different values or update the existing record."
  ELSE IF Contains(error_msg, "FOREIGN KEY constraint")
    THEN "Cannot complete this operation because it references a record that doesn't exist."
  ELSE IF Contains(error_msg, "no such column")
    THEN "Invalid column reference in the query. Please check your field names."
  ELSE IF Contains(Lower(error_msg), "only execute one statement")
    THEN "I can only run one database operation at a time. Please break this into separate requests."
  ELSE error_msg

\* agent.py:408
IsWrite(sql_query) == \E op \in {"UPDATE", "INSERT", "DELETE"} : Contains(Upper(sql_query), op)

\* A variant of WriteResult without the zero-row branch of lines 420-421.
WriteResultWithoutNoEffect(sql_query, row_count, last_id) ==
  IF Contains(Upper(sql_query), "INSERT") THEN "Successfully created new record (ID: " \o ToString(last_id) \o ")."
  ELSE IF Contains(Upper(sql_query), "UPDATE") THEN "Successfully updated " \o ToString(row_count) \o " record(s)."
  ELSE IF Contains(Upper(sql_query), "DELETE") THEN "Successfully deleted " \o ToString(row_count) \o " record(s)."
  ELSE ""

\* agent.py:420-431
WriteResult(sql_query, row_count, last_id) ==
  IF row_count = 0 THEN "No records were affected. The specified record may not exist."
  ELSE IF Contains(Upper(sql_query), "INSERT") THEN "Successfully created new record (ID: " \o ToString(last_id) \o ")."
  ELSE IF Contains(Upper(sql_query), "UPDATE") THEN "Successfully updated " \o ToString(row_count) \o " record(s)."
  ELSE IF Contains(Upper(sql_query), "DELETE") THEN "Successfully deleted " \o ToString(row_count) \o " record(s)."
  ELSE ""

\* agent.py:433-441 and 671-678, the table a statement text names.
TableChanged(text) ==
  IF Contains(Lower(text), "patients") THEN "patients"
  ELSE IF Contains(Lower(text), "visits") THEN "visits"
  ELSE IF Contains(Lower(text), "prescriptions") THEN "prescriptions"
  ELSE IF Contains(Lower(text), "billing") THEN "billing"
  ELSE None

AuditRow(r, sql_query) == [operation |-> "SQL Execution", new_value |-> sql_query, user |-> "chatbot", req |-> r]

\* The faults of the store that no statement text decides: conn.commit()
\* of the statement raising, the audit insert or its commit raising.
Faults == {"none", "commit", "audit"}

\* execute_sql (agent.py:398-474) for request r on database d.  Gives the
\* merged state, the committed database, the audit rows added, whether
\* cursor.execute ran, and the rows the statement changed and committed.
Outcome(st, d, audit, ran, committed, changed) ==
  [state |-> st, db |-> d, audit |-> audit, ran |-> ran, committed |-> committed, changed |-> changed]

\* A variant of Executed whose handler reports the table of the statement
\* that failed.
ExecutedReportsTable(r, st, d, fault, res) ==
  IF ~Truthy(st.sql_query) THEN Outcome(st, d, <<>>, FALSE, FALSE, 0)
  ELSE IF res.raised THEN Outcome([st EXCEPT !.error = ErrorMessage(res.msg), !.table_changed = TableChanged(st.sql_query)], d, <<>>, TRUE, FALSE, 0)
  ELSE IF IsWrite(st.sql_query)
    THEN IF fault = "commit" THEN Outcome([st EXCEPT !.error = ErrorMessage("database is locked")], d, <<>>, TRUE, FALSE, 0)
         ELSE IF fault = "audit" THEN Outcome([st EXCEPT !.error = ErrorMessage("database is locked")], res.db, <<>>, TRUE, TRUE, res.changed)
         ELSE Outcome([st EXCEPT !.execution_result = WriteResult(st.sql_query, res.rowcount, res.lastrowid),
                                 !.table_changed = TableChanged(st.sql_query)],
                      res.db, <<AuditRow(r, st.sql_query)>>, TRUE, TRUE, res.changed)
  ELSE Outcome([st EXCEPT !.execution_result = IF res.fetched # <<>> THEN JsonDumpsRows(res.fetched) ELSE "No matching records found.",
                          !.table_changed = None],
               d, <<>>, TRUE, FALSE, 0)

\* A variant of Executed without the conn.commit() of line 417: the write is
\* reported and audited but the statement's transaction is not committed.
ExecutedWithoutCommit(r, st, d, fault, res) ==
  IF ~Truthy(st.sql_query) THEN Outcome(st, d, <<>>, FALSE, FALSE, 0)
  ELSE IF res.raised THEN Outcome([st EXCEPT !.error = ErrorMessage(res.msg)], d, <<>>, TRUE, FALSE, 0)
  ELSE IF IsWrite(st.sql_query)
    THEN IF fault = "commit" THEN Outcome([st EXCEPT !.error = ErrorMessage("database is locked")], d, <<>>, TRUE, FALSE, 0)
         ELSE IF fault = "audit" THEN Outcome([st EXCEPT !.error = ErrorMessage("database is locked")], d, <<>>, TRUE, TRUE, res.changed)
         ELSE Outcome([st EXCEPT !.execution_result = WriteResult(st.sql_query, res.rowcount, res.lastrowid),
                                 !.table_changed = TableChanged(st.sql_query)],
                      d, <<AuditRow(r, st.sql_query)>>, TRUE, TRUE, res.changed)
  ELSE Outcome([st EXCEPT !.execution_result = IF res.fetched # <<>> THEN JsonDumpsRows(res.fetched) ELSE "No matching records found.",
                          !.table_changed = None],
               d, <<>>, TRUE, FALSE, 0)

Executed(r, st, d, fault, res) ==
  IF ~Truthy(st.sql_query) THEN Outcome(st, d, <<>>, FALSE, FALSE, 0)
  ELSE IF res.raised THEN Outcome([st EXCEPT !.error = ErrorMessage(res.msg)], d, <<>>, TRUE, FALSE, 0)
  ELSE IF IsWrite(st.sql_query)
    THEN IF fault = "commit" THEN Outcome([st EXCEPT !.error = ErrorMessage("database is locked")], d, <<>>, TRUE, FALSE, 0)
         ELSE IF fault = "audit" THEN Outcome([st EXCEPT !.error = ErrorMessage("database is locked")], res.db, <<>>, TRUE, TRUE, res.changed)
         ELSE Outcome([st EXCEPT !.execution_result = WriteResult(st.sql_query, res.rowcount, res.lastrowid),
                                 !.table_changed = TableChanged(st.sql_query)],
                      res.db, <<AuditRow(r, st.sql_query)>>, TRUE, TRUE, res.changed)
  ELSE Outcome([st EXCEPT !.execution_result = IF res.fetched # <<>> THEN JsonDumpsRows(res.fetched) ELSE "No matching records found.",
                          !.table_changed = None],
               d, <<>>, TRUE, FALSE, 0)

execute_sql(r, st, d, fault) == Executed(r, st, d, fault, CursorExecute(d, st.sql_query))

\* ---------------------------------------------------------------- bulk insert
\* What the service may answer to the bulk-insert prompt.
BulkCompletions ==
  {InsPatient \o ";\n" \o InsBilling \o ";",
   Fence \o "sql\n" \o InsVisit \o "\n" \o Fence,
   InsNoTable,
   InsNoTable \o "\n" \o InsBilling,
   InsDropName,
   TwoStatements,
   "Sure, here is the sample data."}

\* agent.py:661-680, the loop over the lines: the open transaction, the
\* texts executed, the number that succeeded, the failures and the tables.
BulkResult(line, acc, res, table) ==
  IF res.raised
  THEN [acc EXCEPT !.errors = Append(@, Prefix(line, 50) \o "... : " \o res.msg),
                   !.ran = Append(@, [text |-> line, ok |-> FALSE, changed |-> 0])]
  ELSE [acc EXCEPT !.db = res.db, !.success_count = @ + 1,
                   !.tables_affected = IF table = None THEN @ ELSE @ \cup {table},
                   !.ran = Append(@, [text |-> line, ok |-> TRUE, changed |-> res.changed])]
BulkExecute(line, acc) == BulkResult(line, acc, CursorExecute(acc.db, line), TableChanged(line))
Unterminated(line) == IF EndsWith(line, ";") THEN SubSeq(line, 1, Len(line) - 1) ELSE line
\* A variant of BulkLine that gives up after the first line that failed.
BulkLineStopsAtFailure(stripped, acc) ==
  IF acc.errors = <<>> /\ stripped # "" /\ StartsWith(Upper(stripped), "INSERT") THEN BulkExecute(Unterminated(stripped), acc) ELSE acc
BulkLine(stripped, acc) ==
  IF stripped # "" /\ StartsWith(Upper(stripped), "INSERT") THEN BulkExecute(Unterminated(stripped), acc) ELSE acc
RECURSIVE BulkLines(_, _)
BulkLines(lines, acc) == IF lines = <<>> THEN acc ELSE BulkLines(Tail(lines), BulkLine(Strip(Head(lines)), acc))

BulkRun(d, content) ==
  BulkLines(Split(Unfenced(content), "\n"), [db |-> d, success_count |-> 0, errors |-> <<>>, tables_affected |-> {}, ran |-> <<>>])

\* The orders in which iterating a Python set of texts may list it.
Listings(S) == {q \in [1..Cardinality(S) -> S] : \A i, j \in 1..Cardinality(S) : q[i] = q[j] => i = j}

\* agent.py:685-695, the outcome of the bulk insert after its commit.
BulkOutcome(st, run, listing) ==
  IF run.success_count > 0
  THEN [st EXCEPT !.execution_result =
                    "Successfully created " \o ToString(run.success_count) \o " new record(s) in "
                    \o (IF run.tables_affected # {} THEN Join(listing, ", ") ELSE "database") \o "."
                    \o (IF run.errors # <<>> THEN " (" \o ToString(Len(run.errors)) \o " statements failed)" ELSE ""),
                  !.table_changed = IF Cardinality(run.tables_affected) = 1 THEN listing[1] ELSE "patients"]
  ELSE [st EXCEPT !.error = "Failed to insert data. Errors: " \o Join(Prefix(run.errors, 3), "; ")]

\* ---------------------------------------------------------------- notifier
\* manager.broadcast(message) of backend/api/websocket.py: the message goes
\* to the connected observers; a failed send is dropped there.
ManagerBroadcast(r, table, delivered) == [req |-> r, table |-> table, action |-> "refresh", delivered |-> delivered]

\* A variant of emit_event without the test of line 480: it broadcasts whether
\* or not a table is reported.
emit_eventUnconditional(r, st, delivered) == <<ManagerBroadcast(r, st.table_changed, delivered)>>

\* A variant of emit_event that sends its message twice.
emit_eventTwice(r, st, delivered) ==
  IF Truthy(st.table_changed)
  THEN <<ManagerBroadcast(r, st.table_changed, delivered), ManagerBroadcast(r, st.table_changed, delivered)>>
  ELSE <<>>

\* A variant of Notified in which a failed broadcast becomes the workflow's error.
NotifiedEscalates(st, delivered) ==
  IF Truthy(st.table_changed) /\ ~delivered THEN [st EXCEPT !.error = "broadcast failed"] ELSE st

\* The state emit_event leaves: it returns {} (agent.py:487) whether or not
\* the broadcast reached anyone.
Notified(st, delivered) == st

\* emit_event (agent.py:477-487): the broadcasts it makes.
emit_event(r, st, delivered) ==
  IF Truthy(st.table_changed) THEN <<ManagerBroadcast(r, st.table_changed, delivered)>> ELSE <<>>

\* ---------------------------------------------------------------- formatter
ChatCompletions == {"Hello! I can help with patient records."}

Suggestion == "Please try rephrasing your request or provide more specific details."

\* json.dumps(response_obj): the type first, then the other keys.
Payload(type, rest) == "{\"type\": " \o JsonString(type) \o rest \o "}"
Field(key, text) == ", \"" \o key \o "\": " \o JsonString(text)

\* The type of a reply payload, read from its text.
PayloadType(final) == Split(final, "\"")[4]

\* agent.py:550-560
TableType(first) ==
  IF HasKey(first, "diagnosis") THEN "visits"
  ELSE IF HasKey(first, "medication") THEN "prescriptions"
  ELSE IF HasKey(first, "amount") THEN "billing"
  ELSE IF HasKey(first, "name") /\ HasKey(first, "age") THEN "patients"
  ELSE IF HasKey(first, "operation") THEN "audit"
  ELSE "data"

\* agent.py:563-572
Summary(table_type, count) ==
  "Found " \o ToString(count) \o
  (CASE table_type = "patients" -> IF count # 1 THEN " patients." ELSE " patient."
     [] table_type = "visits" -> IF count # 1 THEN " visits." ELSE " visit."
     [] table_type = "prescriptions" -> IF count # 1 THEN " prescriptions." ELSE " prescription."
     [] table_type = "billing" -> IF count # 1 THEN " billing records." ELSE " billing record."
     [] table_type = "audit" -> IF count # 1 THEN " audit log entries." ELSE " audit log entry."
     [] OTHER -> IF count # 1 THEN " records." ELSE " record.")

\* agent.py:586-599
IsWriteResult(result) ==
  Contains(result, "Successfully") \/ Contains(Lower(result), "created") \/ Contains(Lower(result), "updated") \/ Contains(Lower(result), "deleted")
ActionType(result) ==
  IF Contains(Lower(result), "updated") THEN "updated" ELSE IF Contains(Lower(result), "deleted") THEN "deleted" ELSE "created"

\* agent.py:539-606, the payload for a result text.
TablePayload(list, table_type) ==
  Payload("table", Field("table_type", table_type) \o Field("message", Summary(table_type, Len(list)))
                   \o ", \"data\": [{" \o Join(list, "}, {") \o "}], \"count\": " \o ToString(Len(list)))
LoadedPayload(result, data) ==
  IF data.ok /\ Len(data.list) > 0 THEN TablePayload(data.list, TableType(data.list[1]))
  ELSE IF IsWriteResult(result) THEN Payload("success", Field("action", ActionType(result)) \o Field("message", result))
  ELSE Payload("text", Field("message", result))
ResultPayload(result) == LoadedPayload(result, JsonLoadsResult(result))

\* generate_response (agent.py:490-612); content is the answer of the
\* service, asked only on the CHAT branch.
generate_response(st, content) ==
  IF st.needs_clarification THEN Returned([st EXCEPT !.final = Payload("clarification", Field("message", ""))])
  ELSE IF st.intent = "CHAT"
    THEN IF content = InvokeFailed THEN Raised(st, InvokeFailed)
         ELSE Returned([st EXCEPT !.final = Payload("text", Field("message", Strip(content)))])
  ELSE IF Truthy(st.error) THEN Returned([st EXCEPT !.final = Payload("error", Field("message", st.error) \o Field("suggestion", Suggestion))])
  ELSE IF Truthy(st.execution_result) THEN Returned([st EXCEPT !.final = ResultPayload(st.execution_result)])
  ELSE Returned([st EXCEPT !.final = Payload("text", Field("message", "I've completed your request. Is there anything else you'd like me to help with?"))])

\* ---------------------------------------------------------------- workflow
\* One node of the compiled graph (agent.py:699-736) run for request r:
\* its state is merged, its name recorded, and the request moves to the
\* node the edges name; an exception leaves ainvoke and chat_endpoint.
\* The connections a stage has opened and not closed when it ends.
\* get_current_data_context closes in a finally (agent.py:144-152) and
\* execute_sql on both of its exits (agent.py:455, 463); generate_bulk_insert
\* closes after its commit (agent.py:682-683), so not when the commit raises.
Unreleased(node, exception) == IF node = "bulk_insert" /\ exception = "OperationalError" THEN 1 ELSE 0

Moved(r, out, next) ==
  [req EXCEPT ![r].state = IF out.raised THEN InitialState(None, <<>>) ELSE out.state,
              ![r].stages = Append(@, req[r].pc),
              ![r].chat_history = IF out.raised THEN 0 ELSE @,
              ![r].exception = out.exception,
              ![r].handles = @ + Unreleased(req[r].pc, out.exception),
              ![r].pc = IF out.raised THEN "raised" ELSE next]

Routed(r, out) == Moved(r, out, route_after_analysis(out.state))

AnalyzeWith(r, completions) ==
  /\ req[r].pc = "analyze"
  /\ \E content \in completions : req' = Routed(r, analyze_request(req[r].state, content))
  /\ heap' = Collect(heap, conversation_store, req')
  /\ UNCHANGED <<conversation_store, db, audit_log, executions, broadcasts, wiped>>

AnalyzeRequest(r) == AnalyzeWith(r, AnalysisCompletions \cup {InvokeFailed})

GenerateSql(r) ==
  /\ req[r].pc = "generate_sql"
  /\ \E content \in SqlCompletions \cup {InvokeFailed} :
       /\ req' = Moved(r, generate_smart_sql(req[r].state, content), "validate")
       /\ heap' = Collect(heap, conversation_store, req')
  /\ UNCHANGED <<conversation_store, db, audit_log, executions, broadcasts, wiped>>

Verdict(r, st) ==
  [Moved(r, Returned(st), route_after_validation(st)) EXCEPT
     ![r].accepted = IF Truthy(st.sql_query) /\ ~Truthy(st.error) THEN st.sql_query ELSE None]

Validate(r) ==
  /\ req[r].pc = "validate"
  /\ req' = Verdict(r, validate_operation(req[r].state))
  /\ UNCHANGED <<conversation_store, heap, db, audit_log, executions, broadcasts, wiped>>

\* One cursor.execute(): the request and node that made it, the text, whether
\* its transaction was committed, and the rows the commit changed.
Execution(r, node, text, committed, changed) ==
  [req |-> r, node |-> node, text |-> text, committed |-> committed, changed |-> changed]

ExecuteStep(r, o) ==
  /\ req' = Moved(r, Returned(o.state), "emit_event")
  /\ db' = Entities(o.db)
  /\ audit_log' = o.db.audit \o o.audit
  /\ executions' = IF o.ran THEN Append(executions, Execution(r, "execute_sql", req[r].state.sql_query, o.committed, o.changed)) ELSE executions

ExecuteSql(r) ==
  /\ req[r].pc = "execute_sql"
  /\ \E fault \in Faults : ExecuteStep(r, execute_sql(r, req[r].state, Connected(db, audit_log), fault))
  /\ UNCHANGED <<conversation_store, heap, broadcasts, wiped>>

\* generate_bulk_insert (agent.py:615-695).  commits: whether conn.commit()
\* at line 682 succeeds; its exception has no handler.
BulkLog(r, ran, done) == [k \in 1..Len(ran) |-> Execution(r, "bulk_insert", ran[k].text, done /\ ran[k].ok, IF done THEN ran[k].changed ELSE 0)]

BulkStep(r, content, commits, run) ==
  IF content = InvokeFailed
  THEN /\ commits
       /\ req' = Moved(r, Raised(req[r].state, InvokeFailed), "emit_event")
       /\ UNCHANGED <<db, executions>>
  ELSE IF ~commits
  THEN /\ run.success_count > 0
       /\ req' = Moved(r, Raised(req[r].state, "OperationalError"), "emit_event")
       /\ executions' = executions \o BulkLog(r, run.ran, FALSE)
       /\ UNCHANGED db
  ELSE \E listing \in Listings(run.tables_affected) :
       /\ req' = [Moved(r, Returned(BulkOutcome(req[r].state, run, listing)), "emit_event") EXCEPT ![r].output = content]
       /\ executions' = executions \o BulkLog(r, run.ran, TRUE)
       /\ db' = Entities(run.db)

BulkInsert(r) ==
  /\ req[r].pc = "bulk_insert"
  /\ \E content \in BulkCompletions \cup {InvokeFailed}, commits \in BOOLEAN : BulkStep(r, content, commits, BulkRun(Connected(db, audit_log), content))
  /\ heap' = Collect(heap, conversation_store, req')
  /\ UNCHANGED <<conversation_store, audit_log, broadcasts, wiped>>

EmitEvent(r) ==
  /\ req[r].pc = "emit_event"
  /\ \E delivered \in BOOLEAN :
       /\ Truthy(req[r].state.table_changed) \/ delivered
       /\ broadcasts' = broadcasts \o emit_event(r, req[r].state, delivered)
       /\ req' = Moved(r, Returned(Notified(req[r].state, delivered)), "respond")
  /\ UNCHANGED <<conversation_store, heap, db, audit_log, executions, wiped>>

Respond(r) ==
  /\ req[r].pc = "respond"
  /\ \E content \in ChatCompletions \cup {InvokeFailed} :
       /\ req' = Moved(r, generate_response(req[r].state, content), "END")
       /\ heap' = Collect(heap, conversation_store, req')
  /\ UNCHANGED <<conversation_store, db, audit_log, executions, broadcasts, wiped>>

\* ---------------------------------------------------------------- specifications
Init ==
  /\ conversation_store = [s \in Sessions |-> 0]
  /\ heap = [a \in Addrs |-> <<>>]
  /\ req = [r \in Requests |-> IdleRequest]
  /\ db = SeedDb
  /\ audit_log = <<>>
  /\ executions = <<>>
  /\ broadcasts = <<>>
  /\ wiped = [s \in Sessions |-> {}]

\* The pipeline: the requests of one client on the default session, who
\* waits for each reply before the next request.
Next ==
  \/ \E r \in Requests, m \in Messages : ChatBegin(r, None, m, 1)
  \/ \E r \in Requests : AnalyzeRequest(r)
  \/ \E r \in Requests : GenerateSql(r)
  \/ \E r \in Requests : Validate(r)
  \/ \E r \in Requests : ExecuteSql(r)
  \/ \E r \in Requests : BulkInsert(r)
  \/ \E r \in Requests : EmitEvent(r)
  \/ \E r \in Requests : Respond(r)
  \/ \E r \in Requests : ChatEnd(r)

Spec == Init /\ [][Next]_vars

\* The session store under concurrent clients.  Each session starts with the
\* history that k earlier exchanges left (at most HistoryLimit turns, as
\* main.py:65-66 keeps it); up to MaxInFlight requests are between the read of
\* the history and the append of their turns; the workflow is the
\* conversational path (analyze, respond).
PriorReply == Payload("text", Field("message", "Hello! I can help with patient records."))

PriorHistory(k) ==
  [i \in 1..(2 * k) |-> IF i % 2 = 1 THEN UserTurn(0 - ((i + 1) \div 2), "hello") ELSE AssistantTurn(0 - (i \div 2), PriorReply)]

PriorExchanges == 0..(IF MaxPrior < HistoryLimit \div 2 THEN MaxPrior ELSE HistoryLimit \div 2)

InitSession ==
  /\ \E k \in PriorExchanges :
       /\ conversation_store = [s \in Sessions |-> IF s = "default" /\ k > 0 THEN 1 ELSE 0]
       /\ heap = [a \in Addrs |-> IF a = 1 THEN PriorHistory(k) ELSE <<>>]
  /\ req = [r \in Requests |-> IdleRequest]
  /\ db = SeedDb
  /\ audit_log = <<>>
  /\ executions = <<>>
  /\ broadcasts = <<>>
  /\ wiped = [s \in Sessions |-> {}]

NextSession ==
  \/ \E r \in Requests, sid \in {None, "s2"} : ChatBegin(r, sid, "hello", MaxInFlight)
  \/ \E r \in Requests : AnalyzeWith(r, {"{\"intent\": \"CHAT\"}", InvokeFailed})
  \/ \E r \in Requests : Respond(r)
  \/ \E r \in Requests : ChatEnd(r)
  \/ \E s \in Sessions : ClearChat(s)

SessionSpec == InitSession /\ [][NextSession]_vars

\* ---------------------------------------------------------------- properties
Range(f) == {f[i] : i \in DOMAIN f}

\* Some four (eight) letters of the text spell DROP (TRUNCATE) in some letter case.
Destructive(text) ==
  \E i \in 1..Len(text) :
    \/ i + 3 <= Len(text) /\ Upper(SubSeq(text, i, i + 3)) = "DROP"
    \/ i + 7 <= Len(text) /\ Upper(SubSeq(text, i, i + 7)) = "TRUNCATE"

\* The request holds a statement of the generator that is destructive.
HoldsDestructive(r) == Truthy(req[r].state.sql_query) /\ Destructive(req[r].state.sql_query)

\* C1: a generated statement that contains DROP or TRUNCATE in any letter
\* case is rejected by the validator: once validated the request carries an
\* error, execute_sql never runs for it, nothing is executed or audited for it,
\* no step changes the database or the audit log while the request holds the
\* statement, and the reply payload has type error.
C1_DestructiveRejected ==
  /\ [](\A r \in Requests : HoldsDestructive(r) =>
          /\ "validate" \in Range(req[r].stages) => Truthy(req[r].state.error)
          /\ "execute_sql" \notin Range(req[r].stages)
          /\ \A k \in DOMAIN executions : executions[k].req # r
          /\ \A k \in DOMAIN audit_log : audit_log[k].req # r
          /\ req[r].pc = "END" => PayloadType(req[r].state.final) = "error")
  /\ [][\A r \in Requests : HoldsDestructive(r) => db' = db /\ audit_log' = audit_log]_vars

C1_Witness ==
  \E r \in Requests :
    /\ req[r].pc = "END"
    /\ req[r].state.sql_query = DropPatients
    /\ "validate" \in Range(req[r].stages)
    /\ PayloadType(req[r].state.final) = "error"

\* The words of a statement text, and whether one of them is WHERE.
HasWhereToken(text) == \E i \in DOMAIN Split(text, " ") : Upper(Split(text, " ")[i]) = "WHERE"

Unqualified(text) ==
  /\ Truthy(text)
  /\ Contains(Upper(text), "UPDATE") \/ Contains(Upper(text), "DELETE")
  /\ ~HasWhereToken(text)

\* C2: a generated statement that contains UPDATE or DELETE and has no WHERE
\* token is rejected by the validator: execute_sql is not attempted for it.
C2_UnqualifiedRejected ==
  \A r \in Requests : Unqualified(req[r].state.sql_query) => "execute_sql" \notin Range(req[r].stages)

\* C3: every statement executed against the store was accepted by the
\* validator, as that same text, in the request that executes it; the lines
\* of the bulk-insert path included.
C3_ExecutedWasValidated ==
  \A k \in DOMAIN executions : req[executions[k].req].accepted = executions[k].text

\* The turns a request's completion leaves in its list.
Appended(r) == heap[req[r].chat_history] \o <<UserTurn(r, req[r].state.message), AssistantTurn(r, req[r].state.final)>>

\* Request r completes in this step.
Completes(r) == req[r].pc = "END" /\ req'[r].pc = "done"

\* C4: the history stored for a session never holds more than 20 turns, and
\* a completion that takes its list past 20 leaves the session the last 20
\* turns of that list, in order.
C4_HistoryBounded ==
  /\ [](\A s \in Sessions : conversation_store[s] # 0 => Len(heap[conversation_store[s]]) <= HistoryLimit)
  /\ [][\A r \in Requests : Completes(r) /\ Len(Appended(r)) > HistoryLimit =>
          heap'[conversation_store'[req[r].session_id]]
            = [i \in 1..HistoryLimit |-> Appended(r)[Len(Appended(r)) - HistoryLimit + i]]]_vars

C4_Witness ==
  \E s \in Sessions :
    /\ conversation_store[s] # 0
    /\ Len(heap[conversation_store[s]]) = HistoryLimit
    /\ heap[conversation_store[s]][1].req = 0 - 2
    /\ heap[conversation_store[s]][HistoryLimit].req \in Requests

\* C5: the chat that follows a clear of its session is given no turn that was
\* stored before the clear.
C5_ClearThenChatIsFresh ==
  [][\A r \in Requests : req[r].pc = "idle" /\ req'[r].pc = "analyze" =>
       \A i \in DOMAIN req'[r].state.chat_history :
         req'[r].state.chat_history[i].req \notin wiped[req'[r].session_id]]_vars

\* C6: no two requests of one session are both between the read of the
\* history and the append of their turns.
C6_SerializedPerSession ==
  \A r, q \in InFlight : r # q => req[r].session_id # req[q].session_id

\* C7: a request that completes leaves its two turns, the user's then the
\* assistant's, at the end of the history stored under its session id.
C7_TurnsAppended ==
  [][\A r \in Requests : Completes(r) =>
       /\ conversation_store'[req[r].session_id] # 0
       /\ Len(heap'[conversation_store'[req[r].session_id]]) >= 2
       /\ SubSeq(heap'[conversation_store'[req[r].session_id]],
                 Len(heap'[conversation_store'[req[r].session_id]]) - 1,
                 Len(heap'[conversation_store'[req[r].session_id]]))
            = <<UserTurn(r, req[r].state.message), AssistantTurn(r, req[r].state.final)>>]_vars

\* Analyze has completed for the request: it returned and the workflow went on.
AnalyzeCompleted(r) == Len(req[r].stages) >= 2 \/ (req[r].stages = <<"analyze">> /\ req[r].pc # "raised")

\* C8: a request whose Analyze stage has completed is never ended by an
\* exception of a later stage (an ended request reaches no further stage, so
\* it would never reach Respond).
C8_ReachesRespond ==
  \A r \in Requests : AnalyzeCompleted(r) => req[r].pc # "raised"

\* C9: a request in which a completion call failed is answered with an error
\* payload.
C9_CompletionFailureReply ==
  \A r \in Requests : req[r].exception = InvokeFailed =>
    /\ req[r].response # None
    /\ PayloadType(req[r].response) = "error"

\* What the engine changes the store with.
Mutating(text) == Parse(text).op \in {"insert", "update", "delete", "replace", "drop"}

\* C10: the audit log holds as many records as mutating statements were
\* committed, by execute_sql or as a line of a bulk insert.
C10_AuditPerCommit ==
  Len(audit_log) = Cardinality({k \in DOMAIN executions : executions[k].committed /\ Mutating(executions[k].text)})

\* C11: the audit log is append-only: no step modifies or deletes a record
\* it already holds.
C11_AuditAppendOnly ==
  [][\A k \in DOMAIN audit_log : k \in DOMAIN audit_log' /\ audit_log'[k] = audit_log[k]]_vars

\* C12: once the error field of a request's state is set, no step mutates
\* the store, writes an audit record or sends a broadcast, and no stage of
\* the request has run twice.
C12_ErrorStopsEffects ==
  /\ [][\A r \in Requests : Truthy(req[r].state.error) =>
          db' = db /\ audit_log' = audit_log /\ broadcasts' = broadcasts]_vars
  /\ [](\A r \in Requests : Truthy(req[r].state.error) =>
          \A i, j \in DOMAIN req[r].stages : i # j => req[r].stages[i] # req[r].stages[j])

C12_Witness ==
  \E r \in Requests :
    /\ req[r].pc = "END"
    /\ Truthy(req[r].state.error)
    /\ req[r].stages = <<"analyze", "generate_sql", "validate", "execute_sql", "emit_event", "respond">>

\* C13: the stage that runs immediately after a stage that set error is
\* Respond.
C13_ErrorGoesToRespond ==
  [][\A r \in Requests : ~Truthy(req[r].state.error) /\ Truthy(req'[r].state.error) => req'[r].pc = "respond"]_vars

\* The complete passes through the stage graph.
Passes ==
  {<<"analyze", "respond">>,
   <<"analyze", "bulk_insert", "emit_event", "respond">>,
   <<"analyze", "generate_sql", "validate", "respond">>,
   <<"analyze", "generate_sql", "validate", "execute_sql", "emit_event", "respond">>}

\* C14: a request that has ended has run exactly one complete pass through
\* the stage graph, with Respond as its last stage.
C14_OnePass ==
  \A r \in Requests : req[r].pc \in {"END", "done", "raised"} => req[r].stages \in Passes

\* C15: a request classified CHAT goes from Analyze straight to Respond: no
\* other stage runs, nothing is executed, audited or broadcast for it, and no
\* step changes the store, the audit log or the broadcasts while it is handled.
C15_ChatTouchesNothing ==
  /\ [](\A r \in Requests : req[r].state.intent = "CHAT" =>
          /\ Range(req[r].stages) \subseteq {"analyze", "respond"}
          /\ req[r].pc \in {"respond", "END"}
          /\ \A k \in DOMAIN executions : executions[k].req # r
          /\ \A k \in DOMAIN audit_log : audit_log[k].req # r
          /\ \A k \in DOMAIN broadcasts : broadcasts[k].req # r)
  /\ [][\A r \in Requests : req[r].state.intent = "CHAT" =>
          db' = db /\ audit_log' = audit_log /\ broadcasts' = broadcasts]_vars

C15_Witness ==
  \E r \in Requests :
    /\ req[r].pc = "END"
    /\ req[r].state.intent = "CHAT"
    /\ req[r].stages = <<"analyze", "respond">>
    /\ PayloadType(req[r].state.final) = "text"

\* The broadcasts made for request r, in order.
BroadcastsOf(r) == SelectSeq(broadcasts, LAMBDA b : b.req = r)

\* C16: a request whose Execute or BulkInsert reported an affected table has
\* made exactly one broadcast, naming that table with action refresh, when it
\* reaches Respond; a request that reported none, or never entered Notify, has
\* made none; nothing is broadcast before Notify.
C16_OneBroadcastPerChange ==
  \A r \in Requests :
    /\ req[r].pc \in {"analyze", "generate_sql", "validate", "execute_sql", "bulk_insert", "emit_event"} => BroadcastsOf(r) = <<>>
    /\ "emit_event" \notin Range(req[r].stages) => BroadcastsOf(r) = <<>>
    /\ req[r].pc \in {"respond", "END"} /\ "emit_event" \in Range(req[r].stages) =>
         IF Truthy(req[r].state.table_changed)
         THEN /\ Len(BroadcastsOf(r)) = 1
              /\ BroadcastsOf(r)[1].table = req[r].state.table_changed
              /\ BroadcastsOf(r)[1].action = "refresh"
         ELSE BroadcastsOf(r) = <<>>

C16_Witness ==
  \E r \in Requests :
    /\ req[r].pc = "respond"
    /\ req[r].state.table_changed = "billing"
    /\ Len(BroadcastsOf(r)) = 1

InsertLines(content) ==
  LET ls == SelectSeq(Split(Unfenced(content), "\n"), LAMBDA l : StartsWith(Upper(Strip(l)), "INSERT"))
  IN [k \in DOMAIN ls |-> Unterminated(Strip(ls[k]))]

\* The executions the bulk-insert stage made for request r, in order.
BulkExecutionsOf(r) == SelectSeq(executions, LAMBDA e : e.req = r /\ e.node = "bulk_insert")

Succeeded(log) == Cardinality({k \in DOMAIN log : log[k].committed})

TotalRows(d) == Cardinality(DOMAIN d.rows["patients"]) + Cardinality(DOMAIN d.rows["visits"])
                + Cardinality(DOMAIN d.rows["prescriptions"]) + Cardinality(DOMAIN d.rows["billing"])

\* The reported counts match the executions: used on a request whose
\* bulk-insert stage has just returned.
BulkReported(st, log, ok) ==
  IF ok > 0
  THEN /\ ~Truthy(st.error)
       /\ StartsWith(st.execution_result, "Successfully created " \o ToString(ok) \o " new record(s)")
       /\ IF Len(log) > ok
          THEN EndsWith(st.execution_result, " (" \o ToString(Len(log) - ok) \o " statements failed)")
          ELSE ~Contains(st.execution_result, "failed")
  ELSE Truthy(st.error)

ZeroRowWrite(r) ==
  /\ \E k \in DOMAIN executions :
       /\ executions[k].req = r /\ executions[k].node = "execute_sql"
       /\ executions[k].committed /\ Mutating(executions[k].text) /\ executions[k].changed = 0
  /\ \E k \in DOMAIN audit_log : audit_log[k].req = r

C20_HandlesReleased ==
  \A r \in Requests : req[r].handles = 0

\* The engine raises on the statement request r is about to execute.
StatementRaises(r) ==
  Truthy(req[r].state.sql_query) /\ CursorExecute(Connected(db, audit_log), req[r].state.sql_query).raised

\* The messages the engine raises that the handler of execute_sql rewords.
Reworded(msg) ==
  \/ Contains(msg, "UNIQUE constraint") \/ Contains(msg, "FOREIGN KEY constraint")
  \/ Contains(msg, "no such column") \/ Contains(Lower(msg), "only execute one statement")

\* C21: when the engine raises on the statement Execute runs, Execute returns
\* normally: the request goes on to the next stage with error set to a
\* non-empty message (the reworded one for the known failures), no affected
\* table, no audit record and an unchanged store; the request then ends with
\* an error payload and has broadcast nothing.
C21_EngineFailureCaught ==
  /\ [][\A r \in Requests : req[r].pc = "execute_sql" /\ req'[r].pc # "execute_sql" /\ StatementRaises(r) =>
          /\ req'[r].pc = "emit_event" /\ req'[r].exception = None
          /\ Truthy(req'[r].state.error)
          /\ Reworded(CursorExecute(Connected(db, audit_log), req[r].state.sql_query).msg)
               => req'[r].state.error # CursorExecute(Connected(db, audit_log), req[r].state.sql_query).msg
          /\ ~Truthy(req'[r].state.table_changed)
          /\ audit_log' = audit_log /\ db' = db]_vars
  /\ [](\A r \in Requests :
          req[r].pc = "END" /\ "execute_sql" \in Range(req[r].stages) /\ Truthy(req[r].state.error) =>
            /\ PayloadType(req[r].state.final) = "error"
            /\ \A k \in DOMAIN broadcasts : broadcasts[k].req # r
            /\ \A k \in DOMAIN audit_log : audit_log[k].req # r)

C21_Witness ==
  \E r \in Requests :
    /\ req[r].pc = "END"
    /\ req[r].state.sql_query = InsPatientDup
    /\ req[r].state.error = ErrorMessage("UNIQUE constraint failed: patients.id")
    /\ \E k \in DOMAIN executions : executions[k].req = r /\ executions[k].text = InsPatientDup /\ ~executions[k].committed
    /\ PayloadType(req[r].state.final) = "error"

\* Analyze runs for request r in this step on the reply `content`.
Analyzes(r, content) == req[r].pc = "analyze" /\ req' = Routed(r, analyze_request(req[r].state, content))

Intents == {"CHAT", "QUERY", "UPDATE", "BULK_INSERT"}

\* C22: on every text the completion service returns to it, Analyze does not
\* raise and yields one of the four intents with needs_clarification false.
C22_AnalyzeTotal ==
  [][\A r \in Requests, content \in AnalysisCompletions : Analyzes(r, content) =>
       /\ req'[r].pc # "raised"
       /\ req'[r].state.intent \in Intents
       /\ ~req'[r].state.needs_clarification]_vars

\* The classification reply does not parse: it is malformed JSON, or an
\* object without the intent field.
ParseFails(doc) == ~doc.ok \/ (doc.object /\ doc.intent = None)

\* C23: when the classification reply fails to parse, the intent is the one
\* the keyword rule gives for the message.
C23_FallbackByKeyword ==
  [][\A r \in Requests, content \in AnalysisCompletions :
       Analyzes(r, content) /\ ParseFails(JsonLoadsAnalysis(AnalysisText(content))) =>
         req'[r].state.intent = FallbackIntent(req[r].state.message)]_vars

\* C24: a request whose generated statement is empty ends with an error
\* payload, and nothing is executed, audited or broadcast for it.
C24_EmptyStatementRejected ==
  \A r \in Requests : "generate_sql" \in Range(req[r].stages) /\ req[r].state.sql_query = "" =>
    /\ \A k \in DOMAIN executions : executions[k].req # r
    /\ \A k \in DOMAIN audit_log : audit_log[k].req # r
    /\ \A k \in DOMAIN broadcasts : broadcasts[k].req # r
    /\ req[r].pc = "END" => PayloadType(req[r].state.final) = "error"

\* Execution k is a committed INSERT of one row by a request that has
\* returned its reply.
InsertReturned(k) ==
  /\ req[executions[k].req].pc = "done"
  /\ executions[k].committed /\ executions[k].changed = 1
  /\ Parse(executions[k].text).op = "insert"

\* No statement committed after execution k has updated, deleted from or
\* dropped table t.
UntouchedSince(k, t) ==
  \A j \in DOMAIN executions : j > k /\ executions[j].committed /\ Parse(executions[j].text).table = t =>
    Parse(executions[j].text).op \in {"insert", "select"}

\* The filter of the read s admits a row of value val.
Admits(s, val) == s.wid = 0 /\ (s.wval = "" \/ s.wval = val)

\* A row of value val is among the rows.
Holds(rows, val) == \E i \in DOMAIN rows : rows[i].value = val

\* Request q executes a read-only statement in this step, with no failure.
Reads(q) ==
  /\ req[q].pc = "execute_sql" /\ req'[q].pc = "emit_event"
  /\ Parse(req[q].state.sql_query).op = "select"
  /\ ~Truthy(req'[q].state.error)

\* C25: when Execute returns the success of an INSERT, the committed database
\* holds the new row under the id the outcome names; and a read-only
\* statement that a later request executes on that table is run on a database
\* that gives it the row of every INSERT of a request that has returned its
\* reply (as long as no later statement changed the table's rows); when
\* Execute fetches the rows of the read, its outcome holds that row.
C25_InsertVisible ==
  /\ [][\A r \in Requests :
          req[r].pc = "execute_sql" /\ req'[r].pc = "emit_event"
          /\ Parse(req[r].state.sql_query).op = "insert" /\ ~Truthy(req'[r].state.error) =>
            \E id \in DOMAIN db'.rows[Parse(req[r].state.sql_query).table] :
              /\ db'.rows[Parse(req[r].state.sql_query).table][id] = Parse(req[r].state.sql_query).val
              /\ req'[r].state.execution_result = "Successfully created new record (ID: " \o ToString(id) \o ")."]_vars
  /\ [][\A q \in Requests : Reads(q) =>
          \A k \in DOMAIN executions :
            /\ InsertReturned(k)
            /\ Parse(executions[k].text).table = Parse(req[q].state.sql_query).table
            /\ Admits(Parse(req[q].state.sql_query), Parse(executions[k].text).val)
            /\ UntouchedSince(k, Parse(executions[k].text).table)
            => /\ Holds(CursorExecute(Connected(db, audit_log), req[q].state.sql_query).fetched, Parse(executions[k].text).val)
               /\ ~IsWrite(req[q].state.sql_query) =>
                    Contains(req'[q].state.execution_result, JsonString(Parse(executions[k].text).val))]_vars

C25_Witness ==
  \E r, q \in Requests :
    /\ req[r].pc = "done"
    /\ \E k \in DOMAIN executions : executions[k].req = r /\ executions[k].text = InsPatient /\ InsertReturned(k)
    /\ req[q].pc = "emit_event"
    /\ req[q].state.sql_query = SelPatients
    /\ Contains(req[q].state.execution_result, "\"John\"")

\* The history stored for session s: whether the session exists, and its turns.
History(s) ==
  [exists |-> conversation_store[s] # 0,
   turns |-> IF conversation_store[s] # 0 THEN heap[conversation_store[s]] ELSE <<>>]

\* The sessions whose stored history this step changes.
Touched == {s \in Sessions : History(s)' # History(s)}

\* C26: a step of a chat request changes the stored history of no session
\* but its own; a stage of the workflow changes none; a clear changes the
\* history of at most one session and creates no session.
C26_SessionsIsolated ==
  /\ [][\A r \in Requests : req'[r] # req[r] =>
          IF req[r].pc = "idle" THEN Touched \subseteq {req'[r].session_id}
          ELSE IF Completes(r) THEN Touched \subseteq {req[r].session_id}
          ELSE Touched = {}]_vars
  /\ [][req' = req =>
          /\ Cardinality(Touched) <= 1
          /\ \A s \in Sessions : conversation_store[s] = 0 => conversation_store'[s] = 0]_vars

C26_Witness ==
  /\ conversation_store["s2"] # 0 /\ heap[conversation_store["s2"]] = <<>> /\ wiped["s2"] # {}
  /\ conversation_store["default"] # 0 /\ Len(heap[conversation_store["default"]]) > 2
  /\ \E i \in DOMAIN heap[conversation_store["default"]] : heap[conversation_store["default"]][i].req \in Requests

\* The Statement Generator runs for request r in this step on the reply `content`.
Generates(r, content) == req[r].pc = "generate_sql" /\ req' = Moved(r, generate_smart_sql(req[r].state, content), "validate")

\* The lines of a text that start with a statement keyword, in order.
SqlLines(text) == SelectSeq(Split(text, "\n"), LAMBDA l : StartsSql(Strip(l)))

\* A statement text with no fence marker, terminator or line break.
SingleStatement(q) == ~Contains(q, Fence) /\ ~Contains(q, ";") /\ ~Contains(q, "\n")

\* The first statement line of a multi-line text, cut at its first terminator.
FirstStatement(text) == Strip(Split(Strip(SqlLines(text)[1]), ";")[1])

\* C27: the statement the generator returns contains no code fence, no ';'
\* and no line break; for a multi-line text with a line that starts with
\* SELECT, INSERT, UPDATE or DELETE it is the first such line cut at its
\* first ';'.
C27_SingleStatement ==
  [][\A r \in Requests, content \in SqlCompletions : Generates(r, content) =>
       /\ SingleStatement(req'[r].state.sql_query)
       /\ Contains(Unfenced(content), "\n") /\ SqlLines(Unfenced(content)) # <<>> =>
            req'[r].state.sql_query = FirstStatement(Unfenced(content))]_vars

\* The rows the engine returns for the statement of request r.
RowsRead(r) == CursorExecute(Connected(db, audit_log), req[r].state.sql_query).fetched

\* The fields of a fetched row.
Columns(row) ==
  CASE row.table = "patients" -> {"id", "name", "age"}
    [] row.table = "visits" -> {"id", "patient_id", "diagnosis"}
    [] row.table = "prescriptions" -> {"id", "visit_id", "medication"}
    [] row.table = "billing" -> {"id", "patient_id", "amount", "status"}
    [] row.table = "patients.name" -> {"name"}
    [] row.table = "visits+patients" -> {"name", "age", "diagnosis"}
    [] row.table = "audit_log" -> {"id", "operation", "new_value", "user"}

\* The entity tag of a row with these fields.
EntityTag(fields) ==
  IF "diagnosis" \in fields THEN "visits"
  ELSE IF "medication" \in fields THEN "prescriptions"
  ELSE IF "amount" \in fields THEN "billing"
  ELSE IF "name" \in fields /\ "age" \in fields THEN "patients"
  ELSE IF "operation" \in fields THEN "audit"
  ELSE "data"

\* Request r has ended after Execute ran, without a failure, a read-only
\* statement for which the engine returns rows.
ReadWithRows(r) ==
  /\ req[r].pc = "END" /\ "execute_sql" \in Range(req[r].stages)
  /\ ~Truthy(req[r].state.error)
  /\ Parse(req[r].state.sql_query).op \in {"select", "join"}
  /\ RowsRead(r) # <<>>

\* C28: the reply to a read that returns rows is a table payload whose count
\* is the number of rows and whose entity tag follows from the fields of the
\* first row in the priority order diagnosis, medication, amount, name and
\* age, operation.
C28_TablePayload ==
  \A r \in Requests : ReadWithRows(r) =>
    /\ PayloadType(req[r].state.final) = "table"
    /\ Contains(req[r].state.final, "\"table_type\": " \o JsonString(EntityTag(Columns(RowsRead(r)[1]))) \o ",")
    /\ EndsWith(req[r].state.final, ", \"count\": " \o ToString(Len(RowsRead(r))) \o "}")

\* The turns of a history come in pairs: a user turn, then the assistant
\* turn of the same request.
Paired(h) ==
  /\ Len(h) % 2 = 0
  /\ \A i \in DOMAIN h : h[i].role = IF i % 2 = 1 THEN "user" ELSE "assistant"
  /\ \A j \in 1..(Len(h) \div 2) : h[2 * j - 1].req = h[2 * j].req

\* C29: the history stored for a session has even length, its turns
\* alternate user, assistant starting with a user turn, and each user turn is
\* followed by the assistant turn of the same request, also after an eviction.
C29_HistoryPaired ==
  \A s \in Sessions : conversation_store[s] # 0 => Paired(heap[conversation_store[s]])

C29_Witness ==
  \E s \in Sessions :
    /\ conversation_store[s] # 0
    /\ Len(heap[conversation_store[s]]) = HistoryLimit
    /\ heap[conversation_store[s]][HistoryLimit - 1] = UserTurn(2, "hello")
    /\ heap[conversation_store[s]][HistoryLimit - 2].req = 1
    /\ heap[conversation_store[s]][1].role = "user" /\ heap[conversation_store[s]][1].req < 0

\* C30: the history stored for a session holds no turn that a clear of the
\* session has removed.
C30_ClearedTurnsGone ==
  \A s \in Sessions : Stored(s) \cap wiped[s] = {}

\* C31: every broadcast names a table in which the request that made it
\* committed a change of at least one row.
C31_BroadcastNamesChange ==
  \A k \in DOMAIN broadcasts :
    \E j \in DOMAIN executions :
      /\ executions[j].req = broadcasts[k].req
      /\ executions[j].committed /\ executions[j].changed >= 1
      /\ Parse(executions[j].text).table = broadcasts[k].table

\* C32: for a request classified QUERY no change is committed, no audit
\* record is written and nothing is broadcast.
C32_QueryIsReadOnly ==
  \A r \in Requests : req[r].state.intent = "QUERY" =>
    /\ \A k \in DOMAIN executions : executions[k].req = r => ~(executions[k].committed /\ executions[k].changed >= 1)
    /\ \A k \in DOMAIN audit_log : audit_log[k].req # r
    /\ \A k \in DOMAIN broadcasts : broadcasts[k].req # r

====
